---- MODULE Spec2Model ----
(***************************************************************************)
(* State-machine model of the REST API of app.js (users, products, orders  *)
(* over a Prisma client) and of the product router of                      *)
(* src/routes/product.js.                                                  *)
(*                                                                         *)
(* The server takes a request whenever one arrives.  A handler runs up to  *)
(* its await and gives control back; the database performs the awaited     *)
(* call, as one atomic operation (a nested write runs in one transaction); *)
(* the handler then resumes and the response is sent.  Requests in         *)
(* progress interleave at these points: the route actions take a request,  *)
(* Settle performs the call of one of the requests in progress, Resume     *)
(* sends the response of one whose call has settled.                       *)
(*                                                                         *)
(* structs.js, async-handler.js and the Prisma schema are not part of the  *)
(* sources; the definitions that stand for them are marked below.          *)
(***************************************************************************)
EXTENDS Integers, Sequences, FiniteSets

VARIABLES db, onDelete, reqs

vars == <<db, onDelete, reqs>>

(***************************************************************************)
(* Bounds of the model.                                                    *)
(***************************************************************************)
\* the requests the server takes, in progress together or one after another
MaxRequests == 2

(***************************************************************************)
(* JavaScript values.                                                      *)
(***************************************************************************)
\* a JSON value of a request body, with its JavaScript type
Str(s) == [type |-> "string", val |-> s]
Num(n) == [type |-> "number", val |-> n]
Bool(b) == [type |-> "boolean", val |-> b]
Obj(o) == [type |-> "object", val |-> o]
Arr(a) == [type |-> "array", val |-> a]

\* a body without fields: {}
EmptyObj == [x \in {} |-> 0]

Has(o, k) == k \in DOMAIN o

\* { ...o } without the keys ks (rest destructuring)
Rest(o, ks) == [k \in (DOMAIN o) \ ks |-> o[k]]

\* { ...a, ...b }: b's keys override a's
Merge(a, b) == [k \in (DOMAIN a) \cup (DOMAIN b) |-> IF k \in DOMAIN b THEN b[k] ELSE a[k]]

\* the plain values of a validated object
Plain(o) == [k \in DOMAIN o |-> o[k].val]

\* A string is a sequence of characters; a character is written as itself,
\* or as "U+XXXX" when it has no escape here.
DigitChars == <<"0", "1", "2", "3", "4", "5", "6", "7", "8", "9">>

\* the letters that are digits above 9, lower and upper case
LetterChars == <<"a", "b", "c", "d", "e", "f">>
UpperLetterChars == <<"A", "B", "C", "D", "E", "F">>

\* the value of c as a digit, 36 when it is none
DigitVal(c) ==
  IF \E n \in 0..9 : DigitChars[n + 1] = c
  THEN CHOOSE n \in 0..9 : DigitChars[n + 1] = c
  ELSE IF \E n \in 1..6 : LetterChars[n] = c \/ UpperLetterChars[n] = c
  THEN 9 + (CHOOSE n \in 1..6 : LetterChars[n] = c \/ UpperLetterChars[n] = c)
  ELSE 36

\* c is a digit in base radix
IsDigit(c, radix) == DigitVal(c) < radix

\* String(n) for a natural number, as a sequence of characters
RECURSIVE NumToString(_)
NumToString(n) ==
  IF n < 10 THEN <<DigitChars[n + 1]>>
  ELSE NumToString(n \div 10) \o <<DigitChars[(n % 10) + 1]>>

\* StrWhiteSpaceChar: white space (tab, VT, FF, space, NBSP, BOM, the space
\* separators) and the line terminators
WhiteSpace ==
  {" ", "\t", "\n", "\r", "\f", "U+000B", "U+00A0", "U+FEFF", "U+2028", "U+2029",
   "U+1680", "U+2000", "U+2001", "U+2002", "U+2003", "U+2004", "U+2005", "U+2006",
   "U+2007", "U+2008", "U+2009", "U+200A", "U+202F", "U+205F", "U+3000"}

RECURSIVE TrimLeft(_)
TrimLeft(s) == IF s # <<>> /\ s[1] \in WhiteSpace THEN TrimLeft(Tail(s)) ELSE s

RECURSIVE DigitPrefix(_, _)
DigitPrefix(s, radix) ==
  IF s # <<>> /\ IsDigit(s[1], radix) THEN <<s[1]>> \o DigitPrefix(Tail(s), radix)
  ELSE <<>>

RECURSIVE DigitsValue(_, _, _)
DigitsValue(acc, ds, radix) ==
  IF ds = <<>> THEN acc
  ELSE DigitsValue(acc * radix + DigitVal(ds[1]), Tail(ds), radix)

NaN == [nan |-> TRUE, val |-> 0]

\* parseInt(s), no radix given: leading white space is skipped, then a sign;
\* after 0x or 0X the base is 16, else 10; the value is that of the longest
\* run of digits of the base, NaN when there is none
parseInt(s) ==
  LET t == TrimLeft(s)
      signed == t # <<>> /\ t[1] \in {"+", "-"}
      u == IF signed THEN Tail(t) ELSE t
      hex == Len(u) >= 2 /\ u[1] = "0" /\ u[2] \in {"x", "X"}
      radix == IF hex THEN 16 ELSE 10
      ds == DigitPrefix(IF hex THEN Tail(Tail(u)) ELSE u, radix)
      n == DigitsValue(0, ds, radix)
  IN IF ds = <<>> THEN NaN
     ELSE [nan |-> FALSE, val |-> IF signed /\ t[1] = "-" THEN 0 - n ELSE n]

(***************************************************************************)
(* The database.                                                           *)
(***************************************************************************)
EmptyDb ==
  [users |-> {}, prefs |-> {}, products |-> {}, orders |-> {}, orderItems |-> {},
   saved |-> {}, userSeq |-> 0, productSeq |-> 0, orderSeq |-> 0]

\* the database the server starts on: a user that has no UserPreference,
\* two products of the same price, one of them saved by the user, and an
\* order of the user with two items
SeedDb ==
  [users |-> {[id |-> 1, name |-> "A", createdAt |-> 0]},
   prefs |-> {},
   products |-> {[id |-> 1, name |-> "p", category |-> "FASHION", price |-> 5,
                  createdAt |-> 0],
                 [id |-> 2, name |-> "q", category |-> "BEAUTY", price |-> 5,
                  createdAt |-> 1]},
   orders |-> {[id |-> 1, userId |-> 1, createdAt |-> 0]},
   orderItems |-> {[orderId |-> 1, pos |-> 1, unitPrice |-> 10, quantity |-> 2],
                   [orderId |-> 1, pos |-> 2, unitPrice |-> 5, quantity |-> 3]},
   saved |-> {<<1, 1>>},
   userSeq |-> 1, productSeq |-> 2, orderSeq |-> 1]

\* the creation times a record added to table can get: time does not go
\* back, so it is the time of the latest record of the table (the same
\* instant) or a later one.  Only the order of the times is ever read.
RECURSIVE Latest(_)
Latest(table) ==
  IF table = {} THEN 0
  ELSE LET r == CHOOSE r \in table : TRUE
           m == Latest(table \ {r})
       IN IF r.createdAt > m THEN r.createdAt ELSE m

Now(table) == {Latest(table), Latest(table) + 1}

(***************************************************************************)
(* Failures.                                                               *)
(***************************************************************************)
\* what asyncHandler reads of a thrown value: its name, whether it is an
\* instance of Prisma.PrismaClientKnownRequestError (with its code) or of
\* Prisma.PrismaClientValidationError, and its message
StructError(msg) ==
  [name |-> "StructError", known |-> FALSE, code |-> "", validation |-> FALSE,
   message |-> msg]

KnownRequestError(code, msg) ==
  [name |-> "PrismaClientKnownRequestError", known |-> TRUE, code |-> code,
   validation |-> FALSE, message |-> msg]

ValidationError(msg) ==
  [name |-> "PrismaClientValidationError", known |-> FALSE, code |-> "",
   validation |-> TRUE, message |-> msg]

\* the result of one data-access call
Ok(d, r) == [db |-> d, result |-> r, error |-> <<>>]
Fail(d, e) == [db |-> d, result |-> <<>>, error |-> <<e>>]

(***************************************************************************)
(* The data-access layer (Prisma client).  Each operator is one call: it   *)
(* takes the database and gives the database after it with the result or   *)
(* the error.  A failed call leaves the database as it was.                *)
(***************************************************************************)
Exists(table, id) == \E r \in table : r.id = id

Row(table, id) == CHOOSE r \in table : r.id = id

\* include: { userPreference: true }
PrefOf(d, uid) ==
  IF \E p \in d.prefs : p.userId = uid
  THEN <<CHOOSE p \in d.prefs : p.userId = uid>>
  ELSE <<>>

\* include: { userPreference: { select: { receiveEmail: true } } }
PrefSelect(d, uid) ==
  IF PrefOf(d, uid) = <<>> THEN <<>>
  ELSE <<[receiveEmail |-> PrefOf(d, uid)[1].receiveEmail]>>

WithPref(d, u) == Merge(u, [userPreference |-> PrefOf(d, u.id)])

WithPrefSelect(d, u) == Merge(u, [userPreference |-> PrefSelect(d, u.id)])

\* prisma.user.create with a nested userPreference.create, include userPreference
UserCreate(d, userFields, userPreference, t) ==
  LET id == d.userSeq + 1
      u == Merge(userFields, [id |-> id, createdAt |-> t])
      p == Merge(userPreference, [userId |-> id])
      d2 == [d EXCEPT !.users = @ \cup {u}, !.prefs = @ \cup {p},
                      !.userSeq = id]
  IN Ok(d2, <<WithPref(d2, u)>>)

\* prisma.user.update with a nested userPreference.update (absent: <<>>),
\* include userPreference
UserUpdate(d, id, userFields, userPreference) ==
  IF ~Exists(d.users, id)
  THEN Fail(d, KnownRequestError("P2025", "Record to update not found."))
  ELSE IF userPreference # <<>> /\ PrefOf(d, id) = <<>>
  THEN Fail(d, KnownRequestError("P2025", "No UserPreference record was found for a nested update."))
  ELSE LET u == Merge(Row(d.users, id), userFields)
           ps == IF userPreference = <<>> THEN d.prefs
                 ELSE {IF p.userId = id THEN Merge(p, userPreference[1]) ELSE p : p \in d.prefs}
           d2 == [d EXCEPT !.users = (@ \ {Row(d.users, id)}) \cup {u}, !.prefs = ps]
       IN Ok(d2, <<WithPref(d2, u)>>)

\* the records that refer to user id
UserDependents(d, id) ==
  (\E p \in d.prefs : p.userId = id) \/ (\E o \in d.orders : o.userId = id)

\* prisma.user.delete; rule is the schema's referential action on the
\* relations from UserPreference and Order to User (the schema is not among
\* the sources: the rule is either one)
UserDelete(d, id, rule) ==
  IF ~Exists(d.users, id)
  THEN Fail(d, KnownRequestError("P2025", "Record to delete does not exist."))
  ELSE IF rule = "Restrict" /\ UserDependents(d, id)
  THEN Fail(d, KnownRequestError("P2003", "Foreign key constraint failed."))
  ELSE LET gone == {o.id : o \in {o \in d.orders : o.userId = id}}
       IN Ok([d EXCEPT !.users = {u \in @ : u.id # id},
                       !.prefs = {p \in @ : p.userId # id},
                       !.orders = {o \in @ : o.userId # id},
                       !.orderItems = {i \in @ : i.orderId \notin gone},
                       !.saved = {s \in @ : s[1] # id}],
             <<Row(d.users, id)>>)

NotFound == KnownRequestError("P2025", "No record found.")

\* prisma.user.findUniqueOrThrow, include userPreference.receiveEmail
UserFindWithPref(d, id) ==
  IF Exists(d.users, id) THEN Ok(d, <<WithPrefSelect(d, Row(d.users, id))>>)
  ELSE Fail(d, NotFound)

\* prisma.user.findUniqueOrThrow, include savedProducts
UserFindWithSaved(d, id) ==
  IF Exists(d.users, id)
  THEN Ok(d, <<Merge(Row(d.users, id),
                     [savedProducts |-> {p \in d.products : <<id, p.id>> \in d.saved}])>>)
  ELSE Fail(d, NotFound)

\* prisma.user.findUniqueOrThrow, include orders
UserFindWithOrders(d, id) ==
  IF Exists(d.users, id)
  THEN Ok(d, <<Merge(Row(d.users, id),
                     [orders |-> {o \in d.orders : o.userId = id}])>>)
  ELSE Fail(d, NotFound)

\* prisma.product.create; name stands for the product's unique field (the
\* schema is not among the sources)
ProductCreate(d, data, t) ==
  IF \E q \in d.products : q.name = data.name
  THEN Fail(d, KnownRequestError("P2002", "Unique constraint failed on the fields: (name)"))
  ELSE LET id == d.productSeq + 1
           p == Merge(data, [id |-> id, createdAt |-> t])
       IN Ok([d EXCEPT !.products = @ \cup {p}, !.productSeq = id], <<p>>)

\* prisma.product.update
ProductUpdate(d, id, data) ==
  IF ~Exists(d.products, id)
  THEN Fail(d, KnownRequestError("P2025", "Record to update not found."))
  ELSE IF Has(data, "name") /\ \E q \in d.products : q.id # id /\ q.name = data.name
  THEN Fail(d, KnownRequestError("P2002", "Unique constraint failed on the fields: (name)"))
  ELSE LET p == Merge(Row(d.products, id), data)
       IN Ok([d EXCEPT !.products = (@ \ {Row(d.products, id)}) \cup {p}], <<p>>)

\* prisma.product.delete
ProductDelete(d, id) ==
  IF ~Exists(d.products, id)
  THEN Fail(d, KnownRequestError("P2025", "Record to delete does not exist."))
  ELSE Ok([d EXCEPT !.products = {p \in @ : p.id # id},
                    !.saved = {s \in @ : s[2] # id}],
          <<Row(d.products, id)>>)

\* prisma.product.findUnique: the record, or null (no result, no error)
ProductFindUnique(d, id) ==
  IF Exists(d.products, id) THEN Ok(d, <<Row(d.products, id)>>) ELSE Ok(d, <<>>)

\* include: { orderItems: true }: the order's items, in the order of creation
RECURSIVE ItemsFrom(_, _, _)
ItemsFrom(d, oid, pos) ==
  IF \E i \in d.orderItems : i.orderId = oid /\ i.pos = pos
  THEN <<CHOOSE i \in d.orderItems : i.orderId = oid /\ i.pos = pos>>
       \o ItemsFrom(d, oid, pos + 1)
  ELSE <<>>

WithItems(d, o) == Merge(o, [orderItems |-> ItemsFrom(d, o.id, 1)])

\* prisma.order.create with a nested orderItems.create, include orderItems
OrderCreate(d, userId, orderItems, t) ==
  IF ~Exists(d.users, userId)
  THEN Fail(d, KnownRequestError("P2003", "Foreign key constraint failed on the field: userId"))
  ELSE LET id == d.orderSeq + 1
           o == [id |-> id, userId |-> userId, createdAt |-> t]
           items == {Merge(orderItems[k], [orderId |-> id, pos |-> k]) :
                       k \in 1..Len(orderItems)}
           d2 == [d EXCEPT !.orders = @ \cup {o}, !.orderItems = @ \cup items,
                           !.orderSeq = id]
       IN Ok(d2, <<WithItems(d2, o)>>)

\* prisma.order.findUniqueOrThrow, include orderItems
OrderFindWithItems(d, id) ==
  IF Exists(d.orders, id) THEN Ok(d, <<WithItems(d, Row(d.orders, id))>>)
  ELSE Fail(d, NotFound)

\* every sequence that lists the records of S once
RECURSIVE Orderings(_)
Orderings(S) ==
  IF S = {} THEN {<<>>}
  ELSE UNION {{<<x>> \o rest : rest \in Orderings(S \ {x})} : x \in S}

\* orderBy: { [field]: dir }; records with equal keys come in any order
InOrder(s, orderBy) ==
  \A i \in 1..(Len(s) - 1) :
    IF orderBy.dir = "asc" THEN s[i][orderBy.field] <= s[i + 1][orderBy.field]
    ELSE s[i][orderBy.field] >= s[i + 1][orderBy.field]

RECURSIVE Drop(_, _)
Drop(s, n) == IF n <= 0 \/ s = <<>> THEN s ELSE Drop(Tail(s), n - 1)

RECURSIVE Take(_, _)
Take(s, n) == IF n <= 0 \/ s = <<>> THEN <<>> ELSE <<s[1]>> \o Take(Tail(s), n - 1)

RECURSIVE Reverse(_)
Reverse(s) == IF s = <<>> THEN <<>> ELSE Reverse(Tail(s)) \o <<s[1]>>

\* a faulty findMany: take is applied before skip
FindManyTakeThenSkip(d, rows, orderBy, skip, take) ==
  IF skip.nan \/ take.nan \/ skip.val < 0
  THEN {Fail(d, ValidationError("Invalid value provided for skip or take."))}
  ELSE {Ok(d, IF take.val >= 0 THEN Drop(Take(s, take.val), skip.val)
              ELSE Reverse(Drop(Take(Reverse(s), 0 - take.val), skip.val))) :
          s \in {o \in Orderings(rows) : InOrder(o, orderBy)}}

\* findMany({ where, orderBy, skip, take }) over the records rows: the results
\* the call can give.  skip and take are what parseInt returned; a NaN or a
\* negative skip is refused as an invalid query, and a negative take pages
\* backwards from the end of the order.
FindMany(d, rows, orderBy, skip, take) ==
  IF skip.nan \/ take.nan \/ skip.val < 0
  THEN {Fail(d, ValidationError("Invalid value provided for skip or take."))}
  ELSE {Ok(d, IF take.val >= 0 THEN Take(Drop(s, skip.val), take.val)
              ELSE Reverse(Take(Drop(Reverse(s), skip.val), 0 - take.val))) :
          s \in {o \in Orderings(rows) : InOrder(o, orderBy)}}

(***************************************************************************)
(* Structural validation (structs.js, which is not among the sources: the  *)
(* shapes follow the specification).  A Create shape accepts an object     *)
(* that has every declared field, each of its declared type, and no other  *)
(* key; a Patch shape makes every field optional.                          *)
(***************************************************************************)
Fields(o, required, optional) ==
  /\ required \subseteq DOMAIN o
  /\ DOMAIN o \subseteq required \cup optional

UserPreferenceShape(v) ==
  /\ v.type = "object"
  /\ Fields(v.val, {"receiveEmail"}, {})
  /\ v.val.receiveEmail.type = "boolean"

UserShape(body) ==
  /\ Has(body, "name") => body.name.type = "string"
  /\ Has(body, "userPreference") => UserPreferenceShape(body.userPreference)

CreateUser(body) == Fields(body, {"name", "userPreference"}, {}) /\ UserShape(body)

PatchUser(body) == Fields(body, {}, {"name", "userPreference"}) /\ UserShape(body)

ProductShape(body) ==
  /\ Has(body, "name") => body.name.type = "string"
  /\ Has(body, "category") => body.category.type = "string"
  /\ Has(body, "price") => body.price.type = "number"

CreateProduct(body) == Fields(body, {"name", "category", "price"}, {}) /\ ProductShape(body)

PatchProduct(body) == Fields(body, {}, {"name", "category", "price"}) /\ ProductShape(body)

OrderItemShape(v) ==
  /\ v.type = "object"
  /\ Fields(v.val, {"unitPrice", "quantity"}, {})
  /\ v.val.unitPrice.type = "number"
  /\ v.val.quantity.type = "number"

CreateOrder(body) ==
  /\ Fields(body, {"userId", "orderItems"}, {})
  /\ body.userId.type = "number"
  /\ body.orderItems.type = "array"
  /\ \A k \in 1..Len(body.orderItems.val) : OrderItemShape(body.orderItems.val[k])

(***************************************************************************)
(* Responses and handler runs.                                             *)
(***************************************************************************)
Json(v) == [kind |-> "json", val |-> v]
Text(v) == [kind |-> "text", val |-> v]
\* res.send(null), res.sendStatus(204): no body
Empty == [kind |-> "empty", val |-> <<>>]

Response(status, body) == [status |-> status, body |-> body]

\* a run of a handler: the database after it, the data-access calls it
\* made, the responses it sent, and what it threw (<<>>: it returned)
Run(d, calls, sent, thrown) == [db |-> d, calls |-> calls, sent |-> sent, thrown |-> thrown]

\* assert(body, Struct) failed: thrown before any data-access call
Rejected(d) == Run(d, <<>>, <<>>, <<StructError("Expected a value of the declared shape")>>)

\* the awaited data-access call r, named call, failed: the handler throws
Threw(r, call) == Run(r.db, <<call>>, <<>>, r.error)

\* the awaited data-access call r, named call, returned and the handler
\* sent one response
Sent(r, call, status, body) == Run(r.db, <<call>>, <<Response(status, body)>>, <<>>)

\* res.send(record): the record found or written; null is sent as no body
SendRecord(result) == IF result = <<>> THEN Empty ELSE Json(result[1])

\* the failure policy of asyncHandler: the status for a thrown value
StatusFor(e) ==
  IF e.name = "StructError" \/ (e.known /\ e.code = "P2002") \/ e.validation THEN 400
  ELSE IF e.known /\ e.code = "P2025" THEN 404
  ELSE 500

\* a faulty asyncHandler: answers the failure and throws it again
asyncHandlerRethrows(run) ==
  IF run.thrown = <<>> THEN run
  ELSE [run EXCEPT
          !.sent = Append(@, Response(StatusFor(run.thrown[1]),
                                      Json([message |-> run.thrown[1].message])))]

\* asyncHandler(handler), applied to a run of handler: a thrown value is
\* caught and answered, and nothing is thrown further
asyncHandler(run) ==
  IF run.thrown = <<>> THEN run
  ELSE [run EXCEPT
          !.sent = Append(@, Response(StatusFor(run.thrown[1]),
                                      Json([message |-> run.thrown[1].message]))),
          !.thrown = <<>>]

\* asyncHandler of ../async-handler.js, which the product router imports (not
\* among the sources: the one failure policy of the specification)
routerAsyncHandler(run) == asyncHandler(run)

(***************************************************************************)
(* Route handlers of app.js: the function given to asyncHandler.           *)
(***************************************************************************)
QueryOr(query, k, default) == IF Has(query, k) THEN query[k] ELSE default

\* switch (order) of GET /users
UserOrderBy(order) ==
  CASE order = "oldest" -> [field |-> "createdAt", dir |-> "asc"]
    [] order = "newest" -> [field |-> "createdAt", dir |-> "desc"]
    [] OTHER -> [field |-> "createdAt", dir |-> "desc"]

GetUsersHandler(d, query) ==
  LET offset == QueryOr(query, "offset", NumToString(0))
      limit == QueryOr(query, "limit", NumToString(10))
      order == QueryOr(query, "order", "newest")
      rows == {WithPrefSelect(d, u) : u \in d.users}
  IN {IF r.error # <<>> THEN Threw(r, "user.findMany")
      ELSE Sent(r, "user.findMany", 200, Json(r.result)) :
        r \in FindMany(d, rows, UserOrderBy(order), parseInt(offset), parseInt(limit))}

GetUserHandler(d, id) ==
  LET r == UserFindWithPref(d, id)
  IN IF r.error # <<>> THEN Threw(r, "user.findUniqueOrThrow")
     ELSE Sent(r, "user.findUniqueOrThrow", 200, SendRecord(r.result))

\* a faulty POST /users: data is userFields alone, without the nested create
PostUsersHandlerWithoutNested(d, body, t) ==
  IF ~CreateUser(body) THEN Rejected(d)
  ELSE LET userFields == Plain(Rest(body, {"userPreference"}))
           id == d.userSeq + 1
           u == Merge(userFields, [id |-> id, createdAt |-> t])
           d2 == [d EXCEPT !.users = @ \cup {u}, !.userSeq = id]
           r == Ok(d2, <<WithPref(d2, u)>>)
       IN Sent(r, "user.create", 201, SendRecord(r.result))

PostUsersHandler(d, body, t) ==
  IF ~CreateUser(body) THEN Rejected(d)
  ELSE LET userPreference == Plain(body.userPreference.val)
           userFields == Plain(Rest(body, {"userPreference"}))
           r == UserCreate(d, userFields, userPreference, t)
       IN IF r.error # <<>> THEN Threw(r, "user.create")
          ELSE Sent(r, "user.create", 201, SendRecord(r.result))

\* a faulty PATCH /users/:id: no assert before the update
PatchUserHandlerWithoutAssert(d, id, body) ==
  LET userPreference == IF Has(body, "userPreference")
                        THEN <<Plain(body.userPreference.val)>> ELSE <<>>
      userFields == Plain(Rest(body, {"userPreference"}))
      r == UserUpdate(d, id, userFields, userPreference)
  IN IF r.error # <<>> THEN Threw(r, "user.update")
     ELSE Sent(r, "user.update", 200, SendRecord(r.result))

\* a faulty PATCH /users/:id: the nested write is an upsert, which creates
\* the preference that is not there
PatchUserHandlerUpsert(d, id, body) ==
  IF ~PatchUser(body) THEN Rejected(d)
  ELSE LET userPreference == IF Has(body, "userPreference")
                             THEN <<Plain(body.userPreference.val)>> ELSE <<>>
           userFields == Plain(Rest(body, {"userPreference"}))
           d1 == IF userPreference # <<>> /\ Exists(d.users, id) /\ PrefOf(d, id) = <<>>
                 THEN [d EXCEPT !.prefs = @ \cup {Merge(userPreference[1], [userId |-> id])}]
                 ELSE d
           r == UserUpdate(d1, id, userFields, userPreference)
       IN IF r.error # <<>> THEN Threw(r, "user.update")
          ELSE Sent(r, "user.update", 200, SendRecord(r.result))

PatchUserHandler(d, id, body) ==
  IF ~PatchUser(body) THEN Rejected(d)
  ELSE LET userPreference == IF Has(body, "userPreference")
                             THEN <<Plain(body.userPreference.val)>> ELSE <<>>
           userFields == Plain(Rest(body, {"userPreference"}))
           r == UserUpdate(d, id, userFields, userPreference)
       IN IF r.error # <<>> THEN Threw(r, "user.update")
          ELSE Sent(r, "user.update", 200, SendRecord(r.result))

DeleteUserHandler(d, id, rule) ==
  LET r == UserDelete(d, id, rule)
  IN IF r.error # <<>> THEN Threw(r, "user.delete")
     ELSE Sent(r, "user.delete", 200, Text("Success delete"))

GetSavedProductsHandler(d, id) ==
  LET r == UserFindWithSaved(d, id)
  IN IF r.error # <<>> THEN Threw(r, "user.findUniqueOrThrow")
     ELSE Sent(r, "user.findUniqueOrThrow", 200, Json(r.result[1].savedProducts))

GetUserOrdersHandler(d, id) ==
  LET r == UserFindWithOrders(d, id)
  IN IF r.error # <<>> THEN Threw(r, "user.findUniqueOrThrow")
     ELSE Sent(r, "user.findUniqueOrThrow", 200, Json(r.result[1].orders))

\* switch (order) of GET /products; an absent order takes the default case
ProductOrderBy(order) ==
  CASE order = "priceLowest" -> [field |-> "price", dir |-> "asc"]
    [] order = "priceHighest" -> [field |-> "price", dir |-> "desc"]
    [] order = "oldest" -> [field |-> "createdAt", dir |-> "asc"]
    [] order = "newest" -> [field |-> "createdAt", dir |-> "desc"]
    [] OTHER -> [field |-> "createdAt", dir |-> "desc"]

\* where = category ? { category } : {}: the empty string is falsy
ProductWhere(d, query) ==
  IF Has(query, "category") /\ query.category # ""
  THEN {p \in d.products : p.category = query.category}
  ELSE d.products

GetProductsHandler(d, query) ==
  LET offset == QueryOr(query, "offset", NumToString(0))
      limit == QueryOr(query, "limit", NumToString(10))
      order == QueryOr(query, "order", "undefined")
  IN {IF r.error # <<>> THEN Threw(r, "product.findMany")
      ELSE Sent(r, "product.findMany", 200, Json(r.result)) :
        r \in FindMany(d, ProductWhere(d, query), ProductOrderBy(order),
                       parseInt(offset), parseInt(limit))}

\* a faulty GET /products/:id: findUniqueOrThrow in place of findUnique
GetProductHandlerOrThrow(d, id) ==
  LET r == IF Exists(d.products, id) THEN ProductFindUnique(d, id) ELSE Fail(d, NotFound)
  IN IF r.error # <<>> THEN Threw(r, "product.findUniqueOrThrow")
     ELSE Sent(r, "product.findUniqueOrThrow", 200, SendRecord(r.result))

GetProductHandler(d, id) ==
  LET r == ProductFindUnique(d, id)
  IN Sent(r, "product.findUnique", 200, SendRecord(r.result))

PostProductsHandler(d, body, t) ==
  IF ~CreateProduct(body) THEN Rejected(d)
  ELSE LET r == ProductCreate(d, Plain(body), t)
       IN IF r.error # <<>> THEN Threw(r, "product.create")
          ELSE Sent(r, "product.create", 200, SendRecord(r.result))

\* a faulty PATCH /products/:id: the body replaces the record, a field it
\* does not name getting its empty value
PatchProductHandlerReplaces(d, id, body) ==
  IF ~PatchProduct(body) THEN Rejected(d)
  ELSE LET data == Merge([name |-> "", category |-> "", price |-> 0], Plain(body))
           r == ProductUpdate(d, id, data)
       IN IF r.error # <<>> THEN Threw(r, "product.update")
          ELSE Sent(r, "product.update", 200, SendRecord(r.result))

PatchProductHandler(d, id, body) ==
  IF ~PatchProduct(body) THEN Rejected(d)
  ELSE LET r == ProductUpdate(d, id, Plain(body))
       IN IF r.error # <<>> THEN Threw(r, "product.update")
          ELSE Sent(r, "product.update", 200, SendRecord(r.result))

\* a faulty DELETE /products/:id: deleteMany, which does not fail when no
\* record matches
DeleteProductHandlerMany(d, id) ==
  LET r == IF Exists(d.products, id) THEN ProductDelete(d, id) ELSE Ok(d, <<>>)
  IN Sent(r, "product.deleteMany", 204, Empty)

DeleteProductHandler(d, id) ==
  LET r == ProductDelete(d, id)
  IN IF r.error # <<>> THEN Threw(r, "product.delete")
     ELSE Sent(r, "product.delete", 204, Empty)

\* a faulty POST /orders: res.send(order), with the default status
PostOrdersHandlerDefaultStatus(d, body, t) ==
  IF ~CreateOrder(body) THEN Rejected(d)
  ELSE LET userId == body.userId.val
           orderItems == [k \in 1..Len(body.orderItems.val) |->
                            Plain(body.orderItems.val[k].val)]
           r == OrderCreate(d, userId, orderItems, t)
       IN IF r.error # <<>> THEN Threw(r, "order.create")
          ELSE Sent(r, "order.create", 200, SendRecord(r.result))

PostOrdersHandler(d, body, t) ==
  IF ~CreateOrder(body) THEN Rejected(d)
  ELSE LET userId == body.userId.val
           orderItems == [k \in 1..Len(body.orderItems.val) |->
                            Plain(body.orderItems.val[k].val)]
           r == OrderCreate(d, userId, orderItems, t)
       IN IF r.error # <<>> THEN Threw(r, "order.create")
          ELSE Sent(r, "order.create", 201, SendRecord(r.result))

\* a faulty total: total += unitPrice + quantity
RECURSIVE TotalOfSums(_)
TotalOfSums(orderItems) ==
  IF orderItems = <<>> THEN 0
  ELSE orderItems[1].unitPrice + orderItems[1].quantity + TotalOfSums(Tail(orderItems))

\* let total = 0; orderItems.forEach(... total += unitPrice * quantity)
RECURSIVE Total(_)
Total(orderItems) ==
  IF orderItems = <<>> THEN 0
  ELSE orderItems[1].unitPrice * orderItems[1].quantity + Total(Tail(orderItems))

GetOrderHandler(d, id) ==
  LET r == OrderFindWithItems(d, id)
  IN IF r.error # <<>> THEN Threw(r, "order.findUniqueOrThrow")
     ELSE Sent(r, "order.findUniqueOrThrow", 200,
               Json(Merge(r.result[1], [total |-> Total(r.result[1].orderItems)])))

(***************************************************************************)
(* Route handlers of the product router (src/routes/product.js).           *)
(***************************************************************************)
\* switch (order) of GET / of the router
RouterProductOrderBy(order) ==
  CASE order = "priceLowest" -> [field |-> "price", dir |-> "asc"]
    [] order = "priceHighest" -> [field |-> "price", dir |-> "desc"]
    [] order = "oldest" -> [field |-> "createdAt", dir |-> "asc"]
    [] order = "newest" -> [field |-> "createdAt", dir |-> "desc"]
    [] OTHER -> [field |-> "createdAt", dir |-> "desc"]

\* where = category ? { category } : {}
RouterProductWhere(d, query) ==
  IF Has(query, "category") /\ query.category # ""
  THEN {p \in d.products : p.category = query.category}
  ELSE d.products

RouterGetProductsHandler(d, query) ==
  LET offset == QueryOr(query, "offset", NumToString(0))
      limit == QueryOr(query, "limit", NumToString(10))
      order == QueryOr(query, "order", "undefined")
  IN {IF r.error # <<>> THEN Threw(r, "product.findMany")
      ELSE Sent(r, "product.findMany", 200, Json(r.result)) :
        r \in FindMany(d, RouterProductWhere(d, query), RouterProductOrderBy(order),
                       parseInt(offset), parseInt(limit))}

RouterPostProductsHandler(d, body, t) ==
  IF ~CreateProduct(body) THEN Rejected(d)
  ELSE LET r == ProductCreate(d, Plain(body), t)
       IN IF r.error # <<>> THEN Threw(r, "product.create")
          ELSE Sent(r, "product.create", 201, SendRecord(r.result))

RouterGetProductHandler(d, id) ==
  LET r == ProductFindUnique(d, id)
  IN Sent(r, "product.findUnique", 200, SendRecord(r.result))

RouterPatchProductHandler(d, id, body) ==
  IF ~PatchProduct(body) THEN Rejected(d)
  ELSE LET r == ProductUpdate(d, id, Plain(body))
       IN IF r.error # <<>> THEN Threw(r, "product.update")
          ELSE Sent(r, "product.update", 200, SendRecord(r.result))

RouterDeleteProductHandler(d, id) ==
  LET r == ProductDelete(d, id)
  IN IF r.error # <<>> THEN Threw(r, "product.delete")
     ELSE Sent(r, "product.delete", 204, Empty)

(***************************************************************************)
(* Requests.                                                               *)
(***************************************************************************)
\* the ids a request can name: those of the records there can be when the
\* last request is taken, and one that no record has
UserIds == 1..(SeedDb.userSeq + MaxRequests - 1)
ProductIds == 1..(SeedDb.productSeq + MaxRequests - 1)
OrderIds == 1..(SeedDb.orderSeq + MaxRequests - 1)

\* {} or { k: v } for each v of S
Opt(k, S) == {EmptyObj} \cup {[x \in {k} |-> v] : v \in S}

\* ?offset=..&limit=..: none, a number, a negative number, a number followed
\* by text, a number in base 16, a number after white space, and text that
\* parseInt gives NaN for
Pagings ==
  {Merge(a, b) : a \in Opt("offset", {<<"1">>}),
                 b \in Opt("limit", {<<"1">>, <<"-", "1">>})}
  \cup {[limit |-> <<"2", "x">>], [offset |-> <<"0", "x", "1">>],
        [limit |-> <<"\t", "1">>], [offset |-> <<"x">>]}

\* the pagings that cut a window out of the list
Windows == {Merge(a, b) : a \in Opt("offset", {<<"1">>}), b \in Opt("limit", {<<"1">>})}

\* every window with every order; the other pagings alone
UserQueries ==
  {Merge(a, c) : a \in Windows, c \in Opt("order", {"oldest", "newest", "name"})}
  \cup Pagings

\* every window with every order, over all products and over a category;
\* the other pagings alone; the empty category
ProductQueries ==
  {Merge(a, Merge(c, e)) :
     a \in Windows,
     c \in Opt("order", {"priceLowest", "priceHighest", "oldest", "newest", "name"}),
     e \in Opt("category", {"BEAUTY"})}
  \cup Pagings
  \cup {[category |-> ""], [category |-> "", order |-> "oldest"]}

Pref(b) == Obj([receiveEmail |-> b])

CreateUserBodies ==
  {[name |-> Str("A"), userPreference |-> Pref(Bool(TRUE))],
   [name |-> Str("B"), userPreference |-> Pref(Bool(FALSE))],
   [name |-> Str("A")],
   [name |-> Num(1), userPreference |-> Pref(Bool(TRUE))],
   [name |-> Str("A"), userPreference |-> Pref(Str("yes"))]}

PatchUserBodies ==
  {EmptyObj,
   [name |-> Str("B")],
   [userPreference |-> Pref(Bool(FALSE))],
   [name |-> Str("B"), userPreference |-> Pref(Bool(TRUE))],
   [name |-> Num(1)],
   [name |-> Str("B"), userPreference |-> Obj(EmptyObj)]}

CreateProductBodies ==
  {[name |-> Str("p"), category |-> Str("FASHION"), price |-> Num(5)],
   [name |-> Str("r"), category |-> Str("BEAUTY"), price |-> Num(10)],
   [name |-> Str("p"), category |-> Str("FASHION")],
   [name |-> Str("p"), category |-> Str("FASHION"), price |-> Str("5")]}

PatchProductBodies ==
  {EmptyObj,
   [price |-> Num(10)],
   [name |-> Str("q")],
   [category |-> Str("BEAUTY"), price |-> Str("10")]}

Item(unitPrice, quantity) == Obj([unitPrice |-> Num(unitPrice), quantity |-> Num(quantity)])

CreateOrderBodies ==
  {[userId |-> Num(u), orderItems |-> Arr(q)] :
     u \in UserIds, q \in {<<>>, <<Item(10, 2)>>, <<Item(10, 2), Item(5, 3)>>}}
  \cup {[userId |-> Num(1)],
        [userId |-> Num(1), orderItems |-> Arr(<<Obj([unitPrice |-> Num(10)])>>)]}

\* no handler has run yet
NoRun == Run(EmptyDb, <<>>, <<>>, <<>>)

\* a request the server has taken: its handler runs up to its await (pc is
\* "called").  before is the database the awaited call met and run the run
\* of the handler on it, both known once the call has settled; sent and
\* uncaught are the responses sent and what was thrown past the wrapper,
\* known once the handler has resumed.
Arrived(route, id, query, body) ==
  [route |-> route, id |-> id, query |-> query, body |-> body, pc |-> "called",
   before |-> EmptyDb, run |-> NoRun, sent |-> <<>>, uncaught |-> <<>>]

(***************************************************************************)
(* Actions.  reqs holds the requests the server has taken, in the order of *)
(* their arrival.  A route action takes a request; Settle lets the         *)
(* database perform the call a handler awaits; Resume lets the handler and *)
(* its wrapper go on to the response.  Any number of requests are in       *)
(* progress at a time.                                                     *)
(***************************************************************************)
Init ==
  /\ db = SeedDb
  /\ onDelete \in {"Cascade", "Restrict"}
  /\ reqs = <<>>

\* the server takes requests, up to the bound
Open == Len(reqs) < MaxRequests

\* the server takes the request
Accept(route, id, query, body) ==
  /\ reqs' = Append(reqs, Arrived(route, id, query, body))
  /\ UNCHANGED <<db, onDelete>>

GetUsers ==
  /\ Open
  /\ \E query \in UserQueries : Accept("GET /users", 0, query, EmptyObj)

GetUser ==
  /\ Open
  /\ \E id \in UserIds : Accept("GET /users/:id", id, EmptyObj, EmptyObj)

PostUsers ==
  /\ Open
  /\ \E body \in CreateUserBodies : Accept("POST /users", 0, EmptyObj, body)

PatchUserById ==
  /\ Open
  /\ \E id \in UserIds : \E body \in PatchUserBodies :
    Accept("PATCH /users/:id", id, EmptyObj, body)

DeleteUser ==
  /\ Open
  /\ \E id \in UserIds : Accept("DELETE /users/:id", id, EmptyObj, EmptyObj)

GetSavedProducts ==
  /\ Open
  /\ \E id \in UserIds : Accept("GET /users/:id/saved-products", id, EmptyObj, EmptyObj)

GetUserOrders ==
  /\ Open
  /\ \E id \in UserIds : Accept("GET /users/:id/orders", id, EmptyObj, EmptyObj)

GetProducts ==
  /\ Open
  /\ \E query \in ProductQueries : Accept("GET /products", 0, query, EmptyObj)

GetProduct ==
  /\ Open
  /\ \E id \in ProductIds : Accept("GET /products/:id", id, EmptyObj, EmptyObj)

PostProducts ==
  /\ Open
  /\ \E body \in CreateProductBodies : Accept("POST /products", 0, EmptyObj, body)

PatchProductById ==
  /\ Open
  /\ \E id \in ProductIds : \E body \in PatchProductBodies :
    Accept("PATCH /products/:id", id, EmptyObj, body)

DeleteProduct ==
  /\ Open
  /\ \E id \in ProductIds : Accept("DELETE /products/:id", id, EmptyObj, EmptyObj)

PostOrders ==
  /\ Open
  /\ \E body \in CreateOrderBodies : Accept("POST /orders", 0, EmptyObj, body)

GetOrder ==
  /\ Open
  /\ \E id \in OrderIds : Accept("GET /orders/:id", id, EmptyObj, EmptyObj)

\* app.js registers no DELETE /orders/:id
DeleteOrder ==
  /\ Open
  /\ \E id \in OrderIds : Accept("DELETE /orders/:id", id, EmptyObj, EmptyObj)

\* the routes of the product router: GET / and POST /, GET, PATCH and DELETE
\* /:id
RouterGetProducts ==
  /\ Open
  /\ \E query \in ProductQueries : Accept("router GET /products", 0, query, EmptyObj)

RouterPostProducts ==
  /\ Open
  /\ \E body \in CreateProductBodies : Accept("router POST /products", 0, EmptyObj, body)

RouterGetProduct ==
  /\ Open
  /\ \E id \in ProductIds : Accept("router GET /products/:id", id, EmptyObj, EmptyObj)

RouterPatchProductById ==
  /\ Open
  /\ \E id \in ProductIds : \E body \in PatchProductBodies :
       Accept("router PATCH /products/:id", id, EmptyObj, body)

RouterDeleteProduct ==
  /\ Open
  /\ \E id \in ProductIds : Accept("router DELETE /products/:id", id, EmptyObj, EmptyObj)

\* a request that matches no route: the server answers 404 and no handler runs
NoRoute(d, text) == Run(d, <<>>, <<Response(404, Text(text))>>, <<>>)

\* the runs of the handler registered for the route of request x, when its
\* awaited call is performed on database d
HandlerRuns(x, d, rule) ==
  CASE x.route = "GET /users" -> GetUsersHandler(d, x.query)
    [] x.route = "GET /users/:id" -> {GetUserHandler(d, x.id)}
    [] x.route = "POST /users" -> {PostUsersHandler(d, x.body, t) : t \in Now(d.users)}
    [] x.route = "PATCH /users/:id" -> {PatchUserHandler(d, x.id, x.body)}
    [] x.route = "DELETE /users/:id" -> {DeleteUserHandler(d, x.id, rule)}
    [] x.route = "GET /users/:id/saved-products" -> {GetSavedProductsHandler(d, x.id)}
    [] x.route = "GET /users/:id/orders" -> {GetUserOrdersHandler(d, x.id)}
    [] x.route = "GET /products" -> GetProductsHandler(d, x.query)
    [] x.route = "GET /products/:id" -> {GetProductHandler(d, x.id)}
    [] x.route = "POST /products" ->
         {PostProductsHandler(d, x.body, t) : t \in Now(d.products)}
    [] x.route = "PATCH /products/:id" -> {PatchProductHandler(d, x.id, x.body)}
    [] x.route = "DELETE /products/:id" -> {DeleteProductHandler(d, x.id)}
    [] x.route = "POST /orders" -> {PostOrdersHandler(d, x.body, t) : t \in Now(d.orders)}
    [] x.route = "GET /orders/:id" -> {GetOrderHandler(d, x.id)}
    [] x.route = "router GET /products" -> RouterGetProductsHandler(d, x.query)
    [] x.route = "router POST /products" ->
         {RouterPostProductsHandler(d, x.body, t) : t \in Now(d.products)}
    [] x.route = "router GET /products/:id" -> {RouterGetProductHandler(d, x.id)}
    [] x.route = "router PATCH /products/:id" ->
         {RouterPatchProductHandler(d, x.id, x.body)}
    [] x.route = "router DELETE /products/:id" -> {RouterDeleteProductHandler(d, x.id)}
    [] OTHER -> {NoRoute(d, "Cannot DELETE /orders/:id")}

\* the routes of the product router
RouterRoutes ==
  {"router GET /products", "router POST /products", "router GET /products/:id",
   "router PATCH /products/:id", "router DELETE /products/:id"}

\* what the wrapping of the route makes of a run of its handler: POST /users
\* is wrapped twice, an unrouted request has no wrapper
Wrapped(route, run) ==
  CASE route = "POST /users" -> asyncHandler(asyncHandler(run))
    [] route \in RouterRoutes -> routerAsyncHandler(run)
    [] route = "DELETE /orders/:id" -> run
    [] OTHER -> asyncHandler(run)

\* the call that the handler of a request in progress awaits is performed
\* and settles (a handler whose assert threw has made no call: its promise
\* is rejected)
Settle ==
  \E i \in 1..Len(reqs) :
    /\ reqs[i].pc = "called"
    /\ \E run \in HandlerRuns(reqs[i], db, onDelete) :
         /\ db' = run.db
         /\ reqs' = [reqs EXCEPT ![i] = [@ EXCEPT !.pc = "settled", !.before = db,
                                                  !.run = run]]
    /\ UNCHANGED onDelete

\* the handler of a request whose call has settled goes on: it sends its
\* response, or it throws and the wrapper answers
Resume ==
  \E i \in 1..Len(reqs) :
    /\ reqs[i].pc = "settled"
    /\ reqs' = [reqs EXCEPT ![i] =
                  [@ EXCEPT !.pc = "answered",
                            !.sent = Wrapped(reqs[i].route, reqs[i].run).sent,
                            !.uncaught = Wrapped(reqs[i].route, reqs[i].run).thrown]]
    /\ UNCHANGED <<db, onDelete>>

\* the routes, by path, and the steps of the requests in progress
Next ==
  \/ DeleteOrder
  \/ GetOrder
  \/ PostOrders
  \/ GetProducts
  \/ GetProduct
  \/ PostProducts
  \/ PatchProductById
  \/ DeleteProduct
  \/ RouterGetProducts
  \/ RouterPostProducts
  \/ RouterGetProduct
  \/ RouterPatchProductById
  \/ RouterDeleteProduct
  \/ GetUsers
  \/ GetUser
  \/ PostUsers
  \/ PatchUserById
  \/ DeleteUser
  \/ GetSavedProducts
  \/ GetUserOrders
  \/ Settle
  \/ Resume

Spec == Init /\ [][Next]_vars

(***************************************************************************)
(* Properties.  They read the requests the server has taken: for a request *)
(* x whose call has settled, x.before is the database the call met and     *)
(* After(x) the database it left.                                          *)
(***************************************************************************)
\* the requests taken (by their place in reqs), those whose call has
\* settled, and those that have been answered
Taken == 1..Len(reqs)
Settled == {n \in Taken : reqs[n].pc # "called"}
Done == {n \in Taken : reqs[n].pc = "answered"}

After(x) == x.run.db
Status(x) == x.sent[1].status
Body(x) == x.sent[1].body

\* the stored records: users, preferences, products, orders, order items
Stored(d) == <<d.users, d.prefs, d.products, d.orders, d.orderItems>>

\* the request was answered once, with this status
Answered(x, status) == Len(x.sent) = 1 /\ x.uncaught = <<>> /\ Status(x) = status

\* the failure policy, as a table
PolicyStatus(e) ==
  CASE e.name = "StructError" -> 400
    [] e.name # "StructError" /\ e.known /\ e.code = "P2002" -> 400
    [] e.name # "StructError" /\ e.validation -> 400
    [] e.name # "StructError" /\ e.known /\ e.code = "P2025" -> 404
    [] OTHER -> 500

FailureAnsweredOnce(x) ==
  x.run.thrown # <<>> =>
    /\ Answered(x, PolicyStatus(x.run.thrown[1]))
    /\ Body(x) = Json([message |-> x.run.thrown[1].message])

\* C1: when the handler of a request fails, exactly one response is sent, its
\* status is the one the failure policy gives for the kind of failure (400
\* for a structural validation failure, a unique-constraint violation P2002
\* and a query-validation failure, 404 for P2025, 500 for anything else), its
\* body is { message }, and nothing is left uncaught; also for POST /users,
\* which is wrapped twice.  No request is ever answered twice.
C1_FailureAnsweredOnce ==
  /\ \A n \in Done : LET x == reqs[n] IN FailureAnsweredOnce(x)
  /\ \A n \in Taken : Len(reqs[n].sent) <= 1

\* C1 witness: POST /users failed on validation and was answered once, 400
C1_Witness ==
  \E n \in Done : LET x == reqs[n] IN
    /\ x.route = "POST /users"
    /\ x.run.thrown # <<>>
    /\ x.run.thrown[1].name = "StructError"
    /\ Len(x.sent) = 1
    /\ Status(x) = 400

\* the routes of a product operation, in app.js and in the product router
ListProducts == {"GET /products", "router GET /products"}
ReadProduct == {"GET /products/:id", "router GET /products/:id"}
PatchProductRoutes == {"PATCH /products/:id", "router PATCH /products/:id"}
DeleteProductRoutes == {"DELETE /products/:id", "router DELETE /products/:id"}

BodyRoutes ==
  {"POST /users", "PATCH /users/:id", "POST /products", "POST /orders",
   "router POST /products"} \cup PatchProductRoutes

ValidBody(route, body) ==
  CASE route = "POST /users" -> CreateUser(body)
    [] route = "PATCH /users/:id" -> PatchUser(body)
    [] route \in {"POST /products", "router POST /products"} -> CreateProduct(body)
    [] route \in PatchProductRoutes -> PatchProduct(body)
    [] route = "POST /orders" -> CreateOrder(body)
    [] OTHER -> TRUE

\* C2: on every Create and Patch route, a body that fails structural
\* validation leads to no data-access call, leaves every stored record as it
\* was, and is answered 400.
C2_ValidatedBeforePersistence ==
  \A n \in Settled : LET x == reqs[n] IN
    (x.route \in BodyRoutes /\ ~ValidBody(x.route, x.body)) =>
      /\ x.run.calls = <<>>
      /\ After(x) = x.before
      /\ x.pc = "answered" => Answered(x, 400)

\* C2 witness: PATCH /users/:id of a user that exists, with an invalid body
C2_Witness ==
  \E n \in Done : LET x == reqs[n] IN
    /\ x.route = "PATCH /users/:id"
    /\ ~PatchUser(x.body)
    /\ Exists(x.before.users, x.id)
    /\ Len(x.sent) = 1
    /\ Status(x) = 400

\* the users created by POST /users
PostedUsers(d) == {u \in d.users : u.id > SeedDb.userSeq}

ItemsOf(d, oid) == {i \in d.orderItems : i.orderId = oid}

\* no user created by POST /users is without its preference, no preference
\* without its user, no order item without its order
NoPartialRecords(d) ==
  /\ \A u \in PostedUsers(d) : Cardinality({p \in d.prefs : p.userId = u.id}) = 1
  /\ \A p \in d.prefs : \E u \in d.users : u.id = p.userId
  /\ \A i \in d.orderItems : \E o \in d.orders : o.id = i.orderId

\* the call of POST /users created the user and its preference, or nothing
PostUsersAllOrNothing(x) ==
  IF x.run.thrown = <<>>
  THEN \E u \in After(x).users \ x.before.users :
         \E p \in After(x).prefs \ x.before.prefs :
           /\ After(x).users = x.before.users \cup {u}
           /\ After(x).prefs = x.before.prefs \cup {p}
           /\ p.userId = u.id
           /\ p.receiveEmail = x.body.userPreference.val.receiveEmail.val
           /\ <<After(x).products, After(x).orders, After(x).orderItems>>
                = <<x.before.products, x.before.orders, x.before.orderItems>>
  ELSE Stored(After(x)) = Stored(x.before)

\* the call of POST /orders created the order with every item of the body,
\* or nothing
PostOrdersAllOrNothing(x) ==
  IF x.run.thrown = <<>>
  THEN \E o \in After(x).orders \ x.before.orders :
         /\ After(x).orders = x.before.orders \cup {o}
         /\ After(x).orderItems \ x.before.orderItems = ItemsOf(After(x), o.id)
         /\ x.before.orderItems \subseteq After(x).orderItems
         /\ Cardinality(ItemsOf(After(x), o.id)) = Len(x.body.orderItems.val)
         /\ \A k \in 1..Len(x.body.orderItems.val) :
              \E i \in ItemsOf(After(x), o.id) :
                /\ i.pos = k
                /\ i.unitPrice = x.body.orderItems.val[k].val.unitPrice.val
                /\ i.quantity = x.body.orderItems.val[k].val.quantity.val
         /\ <<After(x).users, After(x).prefs, After(x).products>>
              = <<x.before.users, x.before.prefs, x.before.products>>
  ELSE Stored(After(x)) = Stored(x.before)

\* GET /users/:id of a user created by POST /users
ReadOfPostedUser(x) ==
  /\ x.route = "GET /users/:id"
  /\ x.id > SeedDb.userSeq
  /\ Exists(x.before.users, x.id)

\* C3: nested creates are atomic.  In every reachable state, whatever
\* requests are in progress, each user created by POST /users has its
\* preference and no child record is without its parent; the call of POST
\* /users adds the user and its preference or nothing, the call of POST
\* /orders the order with all the items of the body or nothing; GET
\* /users/:id of a user created by POST /users, also one in progress together
\* with the POST, returns it with its preference, and GET /orders/:id returns
\* every item of the order.
C3_NestedCreateAtomic ==
  /\ NoPartialRecords(db)
  /\ \A n \in Settled : LET x == reqs[n] IN
       /\ NoPartialRecords(After(x))
       /\ x.route = "POST /users" => PostUsersAllOrNothing(x)
       /\ x.route = "POST /orders" => PostOrdersAllOrNothing(x)
  /\ \A n \in Done : LET x == reqs[n] IN
       /\ ReadOfPostedUser(x) =>
            /\ Answered(x, 200)
            /\ Body(x).val.userPreference # <<>>
            /\ Body(x).val.userPreference[1].receiveEmail
                 = (CHOOSE p \in x.before.prefs : p.userId = x.id).receiveEmail
       /\ (x.route = "GET /orders/:id" /\ Answered(x, 200)) =>
            /\ Len(Body(x).val.orderItems) = Cardinality(ItemsOf(x.before, x.id))
            /\ \A k \in 1..Len(Body(x).val.orderItems) :
                 Body(x).val.orderItems[k] \in x.before.orderItems

\* C3 witness: a user created by POST /users is read back with its
\* preference by a GET /users/:id that is answered before the POST is
C3_Witness ==
  \E n \in Done : \E m \in Settled : LET x == reqs[n] y == reqs[m] IN
    /\ ReadOfPostedUser(x)
    /\ Len(x.sent) = 1
    /\ Status(x) = 200
    /\ Body(x).val.userPreference # <<>>
    /\ y.route = "POST /users"
    /\ y.pc = "settled"
    /\ Exists(After(y).users, x.id)

\* a second C3 case: an order created with two items is stored with both
C3_OrderWitness ==
  \E n \in Done : LET x == reqs[n] IN
    /\ x.route = "POST /orders"
    /\ Len(x.sent) = 1
    /\ Status(x) = 201
    /\ Cardinality(After(x).orderItems \ x.before.orderItems) = 2

\* a decimal numeral, and the number it writes
IsNumeral(s) == s # <<>> /\ \A i \in 1..Len(s) : IsDigit(s[i], 10)
NumeralValue(s) == CHOOSE n \in 0..99 : NumToString(n) = s

\* the list request gives offset and limit as non-negative integers, or not
\* at all
PagingGiven(x) ==
  /\ Has(x.query, "offset") => IsNumeral(x.query.offset)
  /\ Has(x.query, "limit") => IsNumeral(x.query.limit)

OffsetGiven(x) == IF Has(x.query, "offset") THEN NumeralValue(x.query.offset) ELSE 0
LimitGiven(x) == IF Has(x.query, "limit") THEN NumeralValue(x.query.limit) ELSE 10

\* a category is supplied: the query has one, and it is not empty
CategorySupplied(x) == Has(x.query, "category") /\ x.query.category # ""

\* the records a list request is about
Matching(x) ==
  IF x.route = "GET /users" THEN x.before.users
  ELSE IF CategorySupplied(x)
  THEN {p \in x.before.products : p.category = x.query.category}
  ELSE x.before.products

OrderGiven(x) == IF Has(x.query, "order") THEN x.query.order ELSE "absent"

\* s is in the order the order parameter asks for
InClaimedOrder(x, s) ==
  \A i \in 1..Len(s) : \A j \in 1..Len(s) :
    i < j =>
      IF x.route \in ListProducts /\ OrderGiven(x) = "priceLowest"
      THEN s[i].price <= s[j].price
      ELSE IF x.route \in ListProducts /\ OrderGiven(x) = "priceHighest"
      THEN s[i].price >= s[j].price
      ELSE IF OrderGiven(x) = "oldest"
      THEN s[i].createdAt <= s[j].createdAt
      ELSE s[i].createdAt >= s[j].createdAt

\* the records at positions [offset, offset + limit) of full
Window(full, offset, limit) ==
  LET n == IF Len(full) - offset < limit THEN Len(full) - offset ELSE limit
  IN [i \in 1..(IF n < 0 THEN 0 ELSE n) |-> full[offset + i]]

\* the records of a list response without what the include adds
Listed(x) == [i \in 1..Len(Body(x).val) |-> Rest(Body(x).val[i], {"userPreference"})]

\* C4: a list request (GET /users, GET /products) with offset O and limit L
\* (non-negative integers; 0 and 10 when absent) returns at most L records,
\* the ones at positions [O, O+L) of the matching records (for products those
\* of the supplied category, else all) in the order asked for: priceLowest
\* by price ascending, priceHighest by price descending, oldest by creation
\* ascending, anything else or nothing by creation descending; for users
\* oldest by creation ascending, anything else by creation descending.  The
\* request changes no stored record.
C4_ListWindow ==
  \A n \in Done : LET x == reqs[n] IN
    (x.route \in {"GET /users"} \cup ListProducts /\ PagingGiven(x)) =>
      /\ Answered(x, 200)
      /\ After(x) = x.before
      /\ Len(Body(x).val) <= LimitGiven(x)
      /\ \E full \in Orderings(Matching(x)) :
           /\ InClaimedOrder(x, full)
           /\ Listed(x) = Window(full, OffsetGiven(x), LimitGiven(x))

\* C4 witness: GET /products?offset=1&limit=1&order=priceLowest over at least
\* two products returns one record
C4_Witness ==
  \E n \in Done : LET x == reqs[n] IN
    /\ x.route = "GET /products"
    /\ x.query = [offset |-> <<"1">>, limit |-> <<"1">>, order |-> "priceLowest"]
    /\ Cardinality(x.before.products) >= 2
    /\ Len(x.sent) = 1
    /\ Status(x) = 200
    /\ Len(Body(x).val) = 1

RECURSIVE SumOfItems(_)
SumOfItems(S) ==
  IF S = {} THEN 0
  ELSE LET i == CHOOSE i \in S : TRUE
       IN i.unitPrice * i.quantity + SumOfItems(S \ {i})

\* GET /orders/:id of an order that exists
ReadOfOrder(x) == x.route = "GET /orders/:id" /\ Exists(x.before.orders, x.id)

\* C5: GET /orders/:id of an order that exists returns the order with its
\* items and total, the sum of unitPrice * quantity over the stored items of
\* the order (0 without items, 35 for (10,2),(5,3)), and stores nothing: the
\* total is a function of the stored items, and two reads of the same order
\* return the same total.
C5_OrderTotal ==
  /\ \A n \in Done : LET x == reqs[n] IN
       ReadOfOrder(x) =>
         /\ Answered(x, 200)
         /\ After(x) = x.before
         /\ Body(x).val.id = x.id
         /\ {Body(x).val.orderItems[k] : k \in 1..Len(Body(x).val.orderItems)}
              = ItemsOf(x.before, x.id)
         /\ Len(Body(x).val.orderItems) = Cardinality(ItemsOf(x.before, x.id))
         /\ Body(x).val.total = SumOfItems(ItemsOf(x.before, x.id))
         /\ ItemsOf(x.before, x.id) = {} => Body(x).val.total = 0
         /\ {<<i.unitPrice, i.quantity>> : i \in ItemsOf(x.before, x.id)}
              = {<<10, 2>>, <<5, 3>>} => Body(x).val.total = 35
         /\ \A o \in After(x).orders : ~Has(o, "total")
  /\ \A i \in 1..Len(reqs) : \A j \in 1..Len(reqs) :
       (/\ reqs[i].pc = "answered" /\ ReadOfOrder(reqs[i])
        /\ reqs[j].pc = "answered" /\ ReadOfOrder(reqs[j])
        /\ reqs[i].id = reqs[j].id) =>
         Body(reqs[i]).val.total = Body(reqs[j]).val.total

\* C5 witness: the order with items (10,2),(5,3) is read twice, with total 35
C5_Witness ==
  \E i \in 1..Len(reqs) : \E j \in 1..Len(reqs) :
    /\ i < j
    /\ reqs[i].pc = "answered" /\ ReadOfOrder(reqs[i])
    /\ reqs[j].pc = "answered" /\ ReadOfOrder(reqs[j])
    /\ reqs[i].id = reqs[j].id
    /\ Len(Body(reqs[i]).val.orderItems) = 2
    /\ Body(reqs[i]).val.total = 35
    /\ Body(reqs[j]).val.total = 35

\* a second C5 case: an order without items is read with total 0
C5_EmptyWitness ==
  \E n \in Done : LET x == reqs[n] IN
    /\ x.route = "GET /orders/:id"
    /\ Len(x.sent) = 1
    /\ Status(x) = 200
    /\ Body(x).val.orderItems = <<>>
    /\ Body(x).val.total = 0

\* the fields of record id of table that body does not name are as before
FieldsKept(before, after, id, body) ==
  /\ Exists(after, id)
  /\ DOMAIN Row(after, id) = DOMAIN Row(before, id)
  /\ \A f \in (DOMAIN Row(before, id)) \ (DOMAIN body) : Row(after, id)[f] = Row(before, id)[f]
  /\ {r \in after : r.id # id} = {r \in before : r.id # id}

\* C6: a valid Patch payload applied to a User or Product that exists leaves
\* every field it does not contain as stored (the UserPreference too when
\* userPreference is omitted) and every other record unchanged.
C6_PatchKeepsOmittedFields ==
  \A n \in Settled : LET x == reqs[n] IN
    /\ (x.route = "PATCH /users/:id" /\ PatchUser(x.body)
        /\ Exists(x.before.users, x.id)) =>
         /\ FieldsKept(x.before.users, After(x).users, x.id, x.body)
         /\ ~Has(x.body, "userPreference") => After(x).prefs = x.before.prefs
         /\ {p \in After(x).prefs : p.userId # x.id}
              = {p \in x.before.prefs : p.userId # x.id}
         /\ {p.userId : p \in After(x).prefs} = {p.userId : p \in x.before.prefs}
         /\ <<After(x).products, After(x).orders, After(x).orderItems>>
              = <<x.before.products, x.before.orders, x.before.orderItems>>
    /\ (x.route \in PatchProductRoutes /\ PatchProduct(x.body)
        /\ Exists(x.before.products, x.id)) =>
         /\ FieldsKept(x.before.products, After(x).products, x.id, x.body)
         /\ <<After(x).users, After(x).prefs, After(x).orders, After(x).orderItems>>
              = <<x.before.users, x.before.prefs, x.before.orders, x.before.orderItems>>

\* C6 witness: PATCH /users/:id with only userPreference changed the
\* preference of a user and kept its name
C6_Witness ==
  \E n \in Done : LET x == reqs[n] IN
    /\ x.route = "PATCH /users/:id"
    /\ DOMAIN x.body = {"userPreference"}
    /\ Len(x.sent) = 1
    /\ Status(x) = 200
    /\ After(x).prefs # x.before.prefs
    /\ After(x).users = x.before.users

\* more C6 cases: PATCH /products/:id with only price changed the price, in
\* app.js and in the product router
C6_RouterWitness ==
  \E n \in Done : LET x == reqs[n] IN
    /\ x.route = "router PATCH /products/:id"
    /\ DOMAIN x.body = {"price"}
    /\ Status(x) = 200
    /\ After(x).products # x.before.products

C6_ProductWitness ==
  \E n \in Done : LET x == reqs[n] IN
    /\ x.route = "PATCH /products/:id"
    /\ DOMAIN x.body = {"price"}
    /\ Len(x.sent) = 1
    /\ Status(x) = 200
    /\ After(x).products # x.before.products

\* the reads that use findUniqueOrThrow answer 404 for an id that does not
\* exist, and GET /products/:id answers 200 without a body
ReadsOfMissingId(x) ==
  /\ (x.route \in {"GET /users/:id", "GET /users/:id/saved-products",
                   "GET /users/:id/orders"}
      /\ ~Exists(x.before.users, x.id)) =>
       Answered(x, 404) /\ After(x) = x.before
  /\ (x.route = "GET /orders/:id" /\ ~Exists(x.before.orders, x.id)) =>
       Answered(x, 404) /\ After(x) = x.before
  /\ (x.route \in ReadProduct /\ ~Exists(x.before.products, x.id)) =>
       Answered(x, 200) /\ Body(x).kind = "empty" /\ After(x) = x.before

\* a valid PATCH /products/:id names a product that does not exist
PatchOfMissingProduct(x) ==
  /\ x.route \in PatchProductRoutes
  /\ PatchProduct(x.body)
  /\ ~Exists(x.before.products, x.id)

\* C7 as stated: for an id that does not exist the must-exist reads fail with
\* 404, while GET /products/:id and PATCH /products/:id answer with success
\* and an empty body.
C7_AsStated ==
  \A n \in Done : LET x == reqs[n] IN
    /\ ReadsOfMissingId(x)
    /\ PatchOfMissingProduct(x) => Answered(x, 200) /\ Body(x).kind = "empty"

\* C7, amended: for an id that does not exist the must-exist reads fail with
\* 404 and GET /products/:id answers 200 with an empty body, while PATCH
\* /products/:id fails with 404 like the other updates and changes nothing.
C7_MissingIdReads ==
  \A n \in Done : LET x == reqs[n] IN
    /\ ReadsOfMissingId(x)
    /\ PatchOfMissingProduct(x) =>
         /\ Answered(x, 404)
         /\ After(x) = x.before
         /\ Body(x).kind = "json"
         /\ Has(Body(x).val, "message")

\* C7 witness: a valid PATCH /products/:id of a missing product, answered 404
C7_Witness ==
  \E n \in Done : LET x == reqs[n] IN
    /\ PatchOfMissingProduct(x)
    /\ Len(x.sent) = 1
    /\ Status(x) = 404

\* a second C7 case: GET /products/:id of a missing product, answered 200
C7_ProductReadWitness ==
  \E n \in Done : LET x == reqs[n] IN
    /\ x.route = "GET /products/:id"
    /\ ~Exists(x.before.products, x.id)
    /\ Len(x.sent) = 1
    /\ Status(x) = 200
    /\ Body(x).kind = "empty"

\* deleting an id that does not exist: 404, nothing removed or changed
DeleteOfMissing(x, routes, table) ==
  (x.route \in routes /\ ~Exists(table, x.id)) => Answered(x, 404) /\ After(x) = x.before

\* DELETE /products/:id of a product that exists removes exactly it: 204
DeleteOfProduct(x) ==
  (x.route \in DeleteProductRoutes /\ Exists(x.before.products, x.id)) =>
    /\ Answered(x, 204)
    /\ Body(x).kind = "empty"
    /\ After(x).products = x.before.products \ {Row(x.before.products, x.id)}
    /\ <<After(x).users, After(x).prefs, After(x).orders, After(x).orderItems>>
         = <<x.before.users, x.before.prefs, x.before.orders, x.before.orderItems>>

\* C8 as stated: deleting an id that does not exist is answered 404 for
\* Product, Order and User and changes nothing; deleting a record that exists
\* removes exactly that record, answered 204 for Product and Order and with
\* the success text for User.
C8_AsStated ==
  \A n \in Done : LET x == reqs[n] IN
    /\ DeleteOfMissing(x, DeleteProductRoutes, x.before.products)
    /\ DeleteOfMissing(x, {"DELETE /orders/:id"}, x.before.orders)
    /\ DeleteOfMissing(x, {"DELETE /users/:id"}, x.before.users)
    /\ DeleteOfProduct(x)
    /\ (x.route = "DELETE /orders/:id" /\ Exists(x.before.orders, x.id)) =>
         /\ Answered(x, 204)
         /\ After(x).orders = x.before.orders \ {Row(x.before.orders, x.id)}
    /\ (x.route = "DELETE /users/:id" /\ Exists(x.before.users, x.id)) =>
         /\ Answered(x, 200)
         /\ Body(x) = Text("Success delete")
         /\ After(x).users = x.before.users \ {Row(x.before.users, x.id)}
         /\ <<After(x).prefs, After(x).products, After(x).orders, After(x).orderItems>>
              = <<x.before.prefs, x.before.products, x.before.orders,
                  x.before.orderItems>>

\* the user is removed with the records that depend on it, and nothing else
UserRemovedWithDependents(x) ==
  LET gone == {o.id : o \in {o \in x.before.orders : o.userId = x.id}}
  IN /\ After(x).users = x.before.users \ {Row(x.before.users, x.id)}
     /\ After(x).prefs = {p \in x.before.prefs : p.userId # x.id}
     /\ After(x).orders = {o \in x.before.orders : o.userId # x.id}
     /\ After(x).orderItems = {i \in x.before.orderItems : i.orderId \notin gone}
     /\ After(x).products = x.before.products

\* C8, amended: deleting a Product or User that does not exist is answered
\* 404 and changes nothing; deleting a Product that exists removes exactly it
\* and is answered 204.  There is no route to delete an Order: DELETE
\* /orders/:id is answered 404 whether the order exists or not, and removes
\* nothing.  Deleting a User that exists and that no preference or order
\* refers to removes exactly it, answered 200 "Success delete"; when records
\* refer to it the schema's referential rule decides: the user goes with its
\* preference, its orders and their items (200), or the deletion fails (500)
\* and removes nothing.
C8_Deletes ==
  \A n \in Done : LET x == reqs[n] IN
    /\ DeleteOfMissing(x, DeleteProductRoutes, x.before.products)
    /\ DeleteOfMissing(x, {"DELETE /users/:id"}, x.before.users)
    /\ DeleteOfProduct(x)
    /\ x.route = "DELETE /orders/:id" =>
         Answered(x, 404) /\ After(x) = x.before /\ x.run.calls = <<>>
    /\ (x.route = "DELETE /users/:id" /\ Exists(x.before.users, x.id)) =>
         \/ /\ Answered(x, 200)
            /\ Body(x) = Text("Success delete")
            /\ UserRemovedWithDependents(x)
         \/ /\ Answered(x, 500)
            /\ UserDependents(x.before, x.id)
            /\ After(x) = x.before

\* C8 witness: a product that exists is deleted, answered 204
C8_Witness ==
  \E n \in Done : LET x == reqs[n] IN
    /\ x.route = "DELETE /products/:id"
    /\ Exists(x.before.products, x.id)
    /\ ~Exists(After(x).products, x.id)
    /\ Len(x.sent) = 1
    /\ Status(x) = 204

\* more C8 cases: the product router deletes a product; a user is deleted
\* with its order; a deletion is refused;
\* of two deletions of a product in progress together one is answered 204
\* and the other 404
C8_RouterWitness ==
  \E n \in Done : LET x == reqs[n] IN
    /\ x.route = "router DELETE /products/:id"
    /\ Exists(x.before.products, x.id)
    /\ ~Exists(After(x).products, x.id)
    /\ Status(x) = 204

C8_CascadeWitness ==
  \E n \in Done : LET x == reqs[n] IN
    /\ x.route = "DELETE /users/:id"
    /\ Len(x.sent) = 1
    /\ Status(x) = 200
    /\ After(x).orders # x.before.orders

C8_RestrictWitness ==
  \E n \in Done : LET x == reqs[n] IN
    /\ x.route = "DELETE /users/:id"
    /\ Len(x.sent) = 1
    /\ Status(x) = 500

C8_RaceWitness ==
  /\ Len(reqs) = 2
  /\ reqs[1].route = "DELETE /products/:id"
  /\ reqs[2].route = "DELETE /products/:id"
  /\ reqs[1].id = reqs[2].id
  /\ reqs[1].pc = "answered" /\ Status(reqs[1]) = 404
  /\ reqs[2].pc = "answered" /\ Status(reqs[2]) = 204

\* C9: a valid update of an id that does not exist (PATCH /users/:id, PATCH
\* /products/:id) fails with 404 and changes no stored record; so does PATCH
\* /users/:id with a userPreference for a user that has no UserPreference.
C9_UpdateOfMissing ==
  \A n \in Done : LET x == reqs[n] IN
    /\ (x.route = "PATCH /users/:id" /\ PatchUser(x.body)
        /\ ~Exists(x.before.users, x.id)) =>
         Answered(x, 404) /\ After(x) = x.before
    /\ PatchOfMissingProduct(x) => Answered(x, 404) /\ After(x) = x.before
    /\ (x.route = "PATCH /users/:id" /\ PatchUser(x.body)
        /\ Exists(x.before.users, x.id)
        /\ Has(x.body, "userPreference")
        /\ ~\E p \in x.before.prefs : p.userId = x.id) =>
         Answered(x, 404) /\ After(x) = x.before

\* C9 witness: PATCH /users/:id with a name and a userPreference for the user
\* that has no preference: 404, and the name is as it was
C9_Witness ==
  \E n \in Done : LET x == reqs[n] IN
    /\ x.route = "PATCH /users/:id"
    /\ DOMAIN x.body = {"name", "userPreference"}
    /\ PatchUser(x.body)
    /\ Exists(x.before.users, x.id)
    /\ ~\E p \in x.before.prefs : p.userId = x.id
    /\ Len(x.sent) = 1
    /\ Status(x) = 404
    /\ Row(After(x).users, x.id).name # x.body.name.val

\* the create was a success: a record was stored
Stores(x, table) == Len(x.sent) = 1 /\ Status(x) \in 200..299 /\ table # {}

\* the record returned by a create: the fields of the body, with the id and
\* the creation time the server gave, as stored
ReturnsCreated(x, table, before, nested) ==
  /\ Body(x).kind = "json"
  /\ DOMAIN Body(x).val = (DOMAIN x.body) \cup {"id", "createdAt"}
  /\ \A f \in (DOMAIN x.body) \ {nested} : Body(x).val[f] = x.body[f].val
  /\ Rest(Body(x).val, {nested}) \in table
  /\ ~Exists(before, Body(x).val.id)

CreatedUserReturned(x) ==
  /\ ReturnsCreated(x, After(x).users, x.before.users, "userPreference")
  /\ Len(Body(x).val.userPreference) = 1
  /\ Body(x).val.userPreference[1].receiveEmail
       = x.body.userPreference.val.receiveEmail.val

CreatedOrderReturned(x) ==
  /\ ReturnsCreated(x, After(x).orders, x.before.orders, "orderItems")
  /\ Len(Body(x).val.orderItems) = Len(x.body.orderItems.val)
  /\ \A k \in 1..Len(Body(x).val.orderItems) :
       /\ Body(x).val.orderItems[k].unitPrice = x.body.orderItems.val[k].val.unitPrice.val
       /\ Body(x).val.orderItems[k].quantity = x.body.orderItems.val[k].val.quantity.val

\* POST /users and POST /orders: 201 with the created record
UserAndOrderCreates(x) ==
  /\ (x.route = "POST /users" /\ Stores(x, After(x).users \ x.before.users)) =>
       Status(x) = 201 /\ CreatedUserReturned(x)
  /\ (x.route = "POST /orders" /\ Stores(x, After(x).orders \ x.before.orders)) =>
       Status(x) = 201 /\ CreatedOrderReturned(x)

\* a product was created through route
ProductStored(x, route) ==
  x.route = route /\ Stores(x, After(x).products \ x.before.products)

\* C10 as stated: a successful create returns the created record (the input
\* fields, the id and the creation time), with 201 for POST /users and POST
\* /orders and with 200, not 201, for every creation of a product.
C10_AsStated ==
  \A n \in Done : LET x == reqs[n] IN
    /\ UserAndOrderCreates(x)
    /\ (ProductStored(x, "POST /products") \/ ProductStored(x, "router POST /products")) =>
         /\ Status(x) = 200
         /\ ReturnsCreated(x, After(x).products, x.before.products, "")

\* C10, amended: a successful create returns the created record (the input
\* fields, the id and the creation time), with 201 for POST /users and POST
\* /orders; POST /products of app.js answers 200, and POST / of the product
\* router (src/routes/product.js) answers 201.
C10_Creates ==
  \A n \in Done : LET x == reqs[n] IN
    /\ UserAndOrderCreates(x)
    /\ ProductStored(x, "POST /products") =>
         /\ Status(x) = 200
         /\ ReturnsCreated(x, After(x).products, x.before.products, "")
    /\ ProductStored(x, "router POST /products") =>
         /\ Status(x) = 201
         /\ ReturnsCreated(x, After(x).products, x.before.products, "")

\* C10 witness: the product router created a product, answered 201
C10_Witness ==
  \E n \in Done : LET x == reqs[n] IN
    /\ x.route = "router POST /products"
    /\ After(x).products # x.before.products
    /\ Len(x.sent) = 1
    /\ Status(x) = 201

\* more C10 cases: app.js created a product, 200; an order was created, 201
C10_AppProductWitness ==
  \E n \in Done : LET x == reqs[n] IN
    /\ x.route = "POST /products"
    /\ After(x).products # x.before.products
    /\ Len(x.sent) = 1
    /\ Status(x) = 200

C10_OrderWitness ==
  \E n \in Done : LET x == reqs[n] IN
    /\ x.route = "POST /orders"
    /\ After(x).orders # x.before.orders
    /\ Len(x.sent) = 1
    /\ Status(x) = 201

====
